---------------------------- MODULE Spec2Model ----------------------------
(***************************************************************************)
(* Model of the CI/CD backend of SecureCloudProject: the run orchestrator  *)
(* (backend/app/pipelines/runner_real.py), the trigger and the event       *)
(* stream (backend/app/pipelines/routes.py) and the per-run event bus      *)
(* (backend/app/pipelines/events.py).                                      *)
(*                                                                         *)
(* Scheduling.  run_real_pipeline is a coroutine awaited on the server's   *)
(* event loop (BackgroundTasks awaits async callables).  Its only awaits   *)
(* are bus.publish -> asyncio.Queue.put on an unbounded queue, which never *)
(* suspends, and every external command is a blocking call: once started,  *)
(* an orchestrator holds the event loop until it returns or raises.  The   *)
(* variable loop records which run holds the loop; event-stream handlers   *)
(* (coroutines of the same loop) run only while it is free.  The trigger   *)
(* handler run_pipeline is a plain def and runs on a worker thread.        *)
(***************************************************************************)
EXTENDS Integers, Sequences, FiniteSets, TLC

\* ------------------------------------------------------------------ bounds
NumRuns == 2
NumPipelines == 2
MaxCommit == 2
OutLines == 1
MaxFaults == 2
NumSubs == 2
MaxEvents == 3
MaxAttempts == 3
MaxArgs == 2
MaxOut == 2
MaxNameLen == 2
NumUsers == 3
MaxRows == 1

Runs == 1..NumRuns
Pipelines == 1..NumPipelines
Commits == 1..MaxCommit
Subs == 1..NumSubs

\* ------------------------------------------------------- models.py: tables
\* Fields of the Run table.  There is no finished_at column.
RunFields == {"id", "pipeline_id", "status", "created_at", "created_by"}

\* run.finished_at = datetime.utcnow(): SQLModel forwards the assignment to
\* pydantic, which rejects a name that is not a field of the model with a
\* ValueError.  TRUE iff the assignment is accepted.
FinishedAtAccepted == "finished_at" \in RunFields

\* --------------------------------------------------- pipeline names, slugs
Digits == <<"1", "2", "3", "4", "5">>

\* The display name stored for pipeline p (create_pipeline takes any name).
PipelineName(p) == <<"M", "y", " ", "A", "_", Digits[p]>>

\* str.lower() on the letters that occur in the names.
\* (a lower() that leaves upper-case letters as they are)
LowerKeepsCase(c) == c
Lower(c) == CASE c = "M" -> "m" [] c = "A" -> "a" [] OTHER -> c

\* _sanitize_name: name.lower().replace(" ", "-").replace("_", "-")
SanitizeName(name) ==
  [i \in 1..Len(name) |->
     LET c == Lower(name[i]) IN IF c = " " \/ c = "_" THEN "-" ELSE c]

Slug(p) == SanitizeName(PipelineName(p))
Slugs == {Slug(p) : p \in Pipelines}

\* ------------------------------------------------------------------ state
VARIABLES
  dbRun,        \* Run rows as committed: [Runs -> [pipeline, status]], status "none" = no row
  dbPipeStatus, \* Pipeline.status as committed
  pc,           \* position of each run's orchestrator task
  loop,         \* run whose orchestrator holds the event loop, 0 = free
  prev,         \* previous_commit of the run (0 = None)
  sessRun,      \* run.status in the orchestrator's session (uncommitted)
  sessPipe,     \* pipeline.status in the orchestrator's session (uncommitted; "" = unchanged)
  err,          \* message of the exception being handled
  queues,       \* bus._queues: [Runs -> Seq(event)], meaningful for keys in chans
  chans,        \* keys present in bus._queues
  published,    \* history: every event published for the run, in publish order
  subRun,       \* run an event stream is attached to, 0 = not open
  subAt,        \* history: <<events published, events consumed>> at attach time
  received,     \* history: events yielded to each stream
  ws,           \* workspace checkout per slug: 0 = no git checkout, else HEAD commit
  hasDemo,      \* repository contains the demo/ directory
  sonarToken,   \* settings.sonar_token is set
  localImg,     \* local image tagged slug:run-<r>: commit it was built from, 0 = none
  images,       \* images on the deploy host
  containers,   \* containers on the deploy host
  nextCid,      \* next container id handed out by the deploy host
  faults,       \* environment failures so far
  logs,         \* log file per slug, _log_files, and what each run wrote
  hist,         \* history of each run: facts the properties refer to
  probe,        \* one call of _healthcheck and the branch its caller takes
  proc,         \* one call of _run_cmd and what its consumer observes
  names,        \* two pipeline names and the slugs derived from them
  snap,         \* one capture of the deployment state before a run
  xfer,         \* one call of _docker_save_and_load_over_ssh
  auth          \* users, role requests and the last answer of the guarded routes

vars == <<dbRun, dbPipeStatus, pc, loop, prev, sessRun, sessPipe, err, queues, chans,
          published, subRun, subAt, received, ws, hasDemo, sonarToken, localImg,
          images, containers, nextCid, faults, logs, hist, probe, proc, names, snap,
          xfer, auth>>

dbVars == <<dbRun, dbPipeStatus>>
busVars == <<queues, chans, published>>
subVars == <<subRun, subAt, received>>
hostVars == <<images, containers, nextCid>>
cfgVars == <<hasDemo, sonarToken>>
unitVars == <<probe, proc, names, snap, xfer, auth>>

\* started: the orchestrator was invoked; pre: the containers of the slug that
\* were running at that time; hc / rbhc: verdict of the health check of the new
\* deployment / of the rolled-back one; raised: a step raised an error;
\* prior: an earlier run of the pipeline had started a container by then;
\* deployed: this run started a container;
\* rollbacks: calls of _rollback_to_previous; rebuilt: an image was rebuilt
\* after a rollback; termWrites: commits that stored a terminal run status.
NoHist == [started |-> FALSE, pre |-> {}, hc |-> "none", rbhc |-> "none",
           raised |-> FALSE, rollbacks |-> 0, rebuilt |-> FALSE, termWrites |-> 0,
           prior |-> FALSE, deployed |-> FALSE]

\* No call of _healthcheck in progress.
NoMessage == [kind |-> "", attempt |-> 0, retries |-> 0, last |-> ""]
NoProbe == [retries |-> 0, outcomes |-> <<>>, previous |-> 0, attempt |-> 0,
            lastError |-> "", at |-> "idle", ok |-> FALSE, message |-> NoMessage,
            next |-> ""]

\* No call of _run_cmd in progress.
NoFailure == [rc |-> 0, text |-> <<>>]
NoProc == [cmd |-> <<>>, out |-> <<>>, rc |-> 0, at |-> "idle", seen |-> <<>>,
           failure |-> NoFailure]

\* file: the lines of ~/.cicd/workspaces/<slug>/logs/<slug>.log (<<>>: no
\* file); open: the run ids that are keys of _log_files; owner: the run that
\* last created the file; written: history of the lines each run wrote.
NoLogs == [file |-> [g \in Slugs |-> <<>>], open |-> {}, owner |-> [g \in Slugs |-> 0],
           written |-> [r \in Runs |-> <<>>]]

\* The server after start-up: no run, empty bus, nothing deployed.
OrchInit ==
  /\ logs = NoLogs
  /\ dbRun = [r \in Runs |-> [pipeline |-> 0, status |-> "none"]]
  /\ dbPipeStatus = [p \in Pipelines |-> "pending"]
  /\ pc = [r \in Runs |-> "none"]
  /\ loop = 0
  /\ prev = [r \in Runs |-> 0]
  /\ sessRun = [r \in Runs |-> "none"]
  /\ sessPipe = [r \in Runs |-> ""]
  /\ err = [r \in Runs |-> ""]
  /\ queues = [r \in Runs |-> <<>>]
  /\ chans = {}
  /\ published = [r \in Runs |-> <<>>]
  /\ subRun = [s \in Subs |-> 0]
  /\ subAt = [s \in Subs |-> <<0, 0>>]
  /\ received = [s \in Subs |-> <<>>]
  /\ hasDemo \in BOOLEAN
  /\ sonarToken \in BOOLEAN
  /\ localImg = [r \in Runs |-> 0]
  /\ images = {}
  /\ containers = {}
  /\ nextCid = 1
  /\ faults = 0
  /\ hist = [r \in Runs |-> NoHist]

\* No workspace holds a checkout yet.
NoCheckout == ws = [g \in Slugs |-> 0]

\* No name being sanitized.
NoNames == [a |-> <<>>, b |-> <<>>, sa |-> <<>>, sb |-> <<>>, ssa |-> <<>>, at |-> "idle"]

\* No capture of the deployment state in progress.
NoSnap == [running |-> 0, image |-> 0, ssh1 |-> "ok", ssh2 |-> "ok", at |-> "idle",
           container |-> 0, inspected |-> 0,
           state |-> [exists |-> FALSE, container_id |-> 0, image |-> 0]]

\* No image transfer in progress.
NoXfer == [save_rc |-> 0, load_rc |-> 0, out |-> <<>>, save_stderr |-> "", at |-> "idle",
           seen |-> <<>>, failure |-> [kind |-> "", rc |-> 0, text |-> <<>>]]

\* Empty tables, no request answered yet.  An e-mail is a number of Emails,
\* 0 stands for a request without identity headers.
NoAnswer == [op |-> "", email |-> 0, role |-> "none", named |-> FALSE, pid |-> 0,
             status |-> 0, name |-> FALSE, pipes |-> 0, runs |-> 0, tasks |-> 0]
NoAuth == [users |-> [u \in 1..NumUsers |-> "none"], bootstrap |-> 0, requests |-> {},
           pipes |-> 0, runs |-> 0, tasks |-> 0, answer |-> NoAnswer]

Init ==
  /\ OrchInit /\ NoCheckout
  /\ probe = NoProbe /\ proc = NoProc /\ names = NoNames /\ snap = NoSnap
  /\ xfer = NoXfer /\ auth = NoAuth

\* ------------------------------------------------------------- event bus
Ev(t, s, m) == [type |-> t, step |-> s, msg |-> m]

\* defaultdict(asyncio.Queue): each queue is built as asyncio.Queue(), whose
\* maxsize defaults to 0, which means no limit.
QueueMaxSize == 0

\* asyncio.Queue.full(); put waits as long as it holds.
\* (a queue that holds one item at most)
QueueFullAtOne(q) == Len(q) >= 1
QueueFull(q) == QueueMaxSize > 0 /\ Len(q) >= QueueMaxSize

\* asyncio.Queue.put on an unbounded queue: append at the tail, never waits.
QueuePut(q, e) == Append(q, e)

RECURSIVE PutAll(_, _)
PutAll(q, evs) == IF evs = <<>> THEN q ELSE PutAll(QueuePut(q, Head(evs)), Tail(evs))

\* The events evs with their publish index (n) in the run's sequence.
Stamp(r, evs) ==
  [i \in 1..Len(evs) |->
     [type |-> evs[i].type, step |-> evs[i].step, msg |-> evs[i].msg,
      n |-> Len(published[r]) + i]]

\* (a bus with one queue shared by all runs)
PublishOnSharedQueue(r, evs) ==
  /\ ~QueueFull(queues[r])
  /\ queues' = [q \in Runs |-> PutAll(queues[q], Stamp(r, evs))]
  /\ published' = [published EXCEPT ![r] = @ \o Stamp(r, evs)]
  /\ chans' = chans \cup {r}

\* RunEventBus.publish for each event of evs in turn (_emit, _step_start,
\* _step_ok, _log all end in it); self._queues[run_id] creates the key.
Publish(r, evs) ==
  /\ ~QueueFull(queues[r])
  /\ queues' = [queues EXCEPT ![r] = PutAll(@, Stamp(r, evs))]
  /\ published' = [published EXCEPT ![r] = @ \o Stamp(r, evs)]
  /\ chans' = chans \cup {r}

StepStart(s) == Ev("step_start", s, "")
StepOk(s) == Ev("step_success", s, "")
Log(s, m) == Ev("log", s, m)

\* The output lines of one external command, each published as a log event.
Lines(s) == [i \in 1..OutLines |-> Log(s, "output")]

\* ------------------------------------------------------------- log file
\* The events published by _step_start, _step_ok and _log, which write a line
\* to the log file first; run_start, run_success, run_failed and the log of
\* the saved commit are handed to _emit directly and write nothing.
Logged(e) ==
  \/ e.type \in {"step_start", "step_success"}
  \/ e.type = "log" /\ e.step # "init"

\* The header "=== Pipeline: <name> | Run <id> | <time> ===" and the lines
\* ">>> STEP: <step>", "[<step>] <message>", "STEP COMPLETED: <step>".
Header(r) == [kind |-> "header", step |-> "", msg |-> "", run |-> r]
LineOf(e) == [kind |-> e.type, step |-> e.step, msg |-> e.msg, run |-> 0]

\* _get_log_file: the first call for a run id opens the file with 'w' and
\* writes the header; later calls return the remembered path.
GetLogFile(L, r, g) ==
  IF r \in L.open THEN L
  ELSE [L EXCEPT !.open = @ \cup {r}, !.owner[g] = r,
                 !.file[g] = <<Header(r)>>,
                 !.written[r] = Append(@, Header(r))]

\* _write_to_log: open(log_file, 'a') appends, creating the file if needed.
WriteToLog(L, r, g, line) ==
  [L EXCEPT !.file[g] = Append(@, line), !.written[r] = Append(@, line)]

\* The log file after the helper calls that publish evs, in turn.
RECURSIVE WriteAll(_, _, _, _)
WriteAll(L, r, g, evs) ==
  IF evs = <<>> THEN L
  ELSE IF Logged(Head(evs))
    THEN WriteAll(WriteToLog(GetLogFile(L, r, g), r, g, LineOf(Head(evs))), r, g, Tail(evs))
  ELSE WriteAll(L, r, g, Tail(evs))

\* shutil.rmtree(ws): the logs directory lies inside the workspace.
Rmtree(L, g) == [L EXCEPT !.file[g] = <<>>]

\* ------------------------------------------------------------- trigger
\* run_pipeline: insert a Run row in status running, queue the orchestrator.
RunPipeline(r, p) ==
  /\ pc[r] = "none"
  /\ \A q \in Runs : q < r => pc[q] # "none"
  /\ dbRun' = [dbRun EXCEPT ![r] = [pipeline |-> p, status |-> "running"]]
  /\ pc' = [pc EXCEPT ![r] = "queued"]
  /\ UNCHANGED <<dbPipeStatus, loop, prev, sessRun, sessPipe, err, busVars, logs, subVars,
                 ws, cfgVars, unitVars, localImg, hostVars, faults, hist>>

PipeOf(r) == dbRun[r].pipeline
SlugOf(r) == Slug(PipeOf(r))

\* ------------------------------------------------------------ orchestrator
CanFail == faults < MaxFaults

\* The helper calls of run r that publish evs: each writes its line, if it has
\* one, and publishes its event.
Emit(r, evs) ==
  /\ Publish(r, evs)
  /\ logs' = WriteAll(logs, r, Slug(dbRun[r].pipeline), evs)

\* The running container named exactly like the run's slug (at most one).
RunningNamed(g) == {c \in containers : c.name = g /\ c.running}

\* run_real_pipeline up to the try block: load run and pipeline, commit
\* status running, read previous_commit from the existing workspace.
Invoke(r) ==
  /\ pc[r] = "queued"
  /\ loop = 0
  /\ loop' = r
  /\ dbRun' = [dbRun EXCEPT ![r].status = "running"]
  /\ sessRun' = [sessRun EXCEPT ![r] = "running"]
  /\ prev' = [prev EXCEPT ![r] = ws[SlugOf(r)]]
  /\ hist' = [hist EXCEPT ![r].started = TRUE, ![r].pre = RunningNamed(SlugOf(r)),
                          ![r].prior = \E q \in Runs : /\ PipeOf(q) = PipeOf(r)
                                                       /\ hist[q].deployed]
  /\ IF ws[SlugOf(r)] # 0
       THEN Emit(r, <<Log("init", "saved previous commit")>>)
       ELSE UNCHANGED <<busVars, logs>>
  /\ pc' = [pc EXCEPT ![r] = "checkout"]
  /\ UNCHANGED <<dbPipeStatus, sessPipe, err, subVars, ws, cfgVars, unitVars, localImg,
                 hostVars, faults>>

\* A step raised: the exception travels to the except block of the try.
\* (the error is recorded and the run goes on with the transfer)
RaiseAndGoOn(r, msg) ==
  /\ err' = [err EXCEPT ![r] = msg]
  /\ pc' = [pc EXCEPT ![r] = "ship"]
Raise(r, msg) ==
  /\ err' = [err EXCEPT ![r] = msg]
  /\ pc' = [pc EXCEPT ![r] = "except"]

\* An external command failed (non-zero exit, unreachable host).
Fail(r, msg) ==
  /\ CanFail
  /\ faults' = faults + 1
  /\ hist' = [hist EXCEPT ![r].raised = TRUE]
  /\ Raise(r, msg)

Goto(r, to) ==
  /\ pc' = [pc EXCEPT ![r] = to]
  /\ UNCHANGED <<err, faults, hist>>

\* STEP checkout: _git_checkout removes the workspace, the log file written so
\* far with it, and clones afresh.
Checkout(r) ==
  /\ pc[r] = "checkout" /\ loop = r
  /\ LET pre == <<Ev("run_start", "", ""), StepStart("checkout"),
                  Log("checkout", "workspace"), Log("checkout", "cloning")>>
         g == SlugOf(r)
         removed == Rmtree(WriteAll(logs, r, g, pre), g)
     IN \/ \E c \in Commits :
             /\ ws' = [ws EXCEPT ![g] = c]
             /\ Publish(r, pre \o <<StepOk("checkout")>>)
             /\ logs' = WriteAll(removed, r, g, <<StepOk("checkout")>>)
             /\ Goto(r, "maven")
        \/ /\ ws' = [ws EXCEPT ![g] = 0]
           /\ Publish(r, pre)
           /\ logs' = removed
           /\ Fail(r, "Command failed: git clone")
  /\ UNCHANGED <<dbVars, loop, prev, sessRun, sessPipe, subVars, cfgVars, unitVars, localImg,
                 hostVars>>

\* STEP maven_tests: skipped without demo/, else compile then test.
MavenTests(r) ==
  /\ pc[r] = "maven" /\ loop = r
  /\ LET s == "maven_tests"
         build == <<StepStart(s), Log(s, "building")>> \o Lines(s)
         test == build \o <<Log(s, "running tests")>> \o Lines(s)
     IN IF ~hasDemo
          THEN /\ Emit(r, <<StepStart(s), Log(s, "no demo directory, skipping tests"),
                               StepOk(s)>>)
               /\ Goto(r, "sonar")
          ELSE \/ Emit(r, build) /\ Fail(r, "Command failed: mvnw clean compile")
               \/ Emit(r, test) /\ Fail(r, "Command failed: mvnw test")
               \/ /\ Emit(r, test \o <<Log(s, "tests passed"), StepOk(s)>>)
                  /\ Goto(r, "sonar")
  /\ UNCHANGED <<dbVars, loop, prev, sessRun, sessPipe, subVars, ws, cfgVars, unitVars, localImg,
                 hostVars>>

\* STEP sonarcloud_analysis: skipped without demo/, fails without a token.
Sonar(r) ==
  /\ pc[r] = "sonar" /\ loop = r
  /\ LET s == "sonarcloud_analysis"
         intro == <<StepStart(s), Log(s, "running analysis"), Log(s, "results on sonarcloud")>>
         ran == intro \o <<Log(s, "command")>> \o Lines(s)
     IN IF ~hasDemo
          THEN /\ Emit(r, <<StepStart(s), Log(s, "no demo directory, skipping sonarcloud"),
                               StepOk(s)>>)
               /\ Goto(r, "build")
          ELSE IF ~sonarToken
            THEN /\ Emit(r, intro \o <<Log(s, "SONAR_TOKEN not found")>>)
                 /\ hist' = [hist EXCEPT ![r].raised = TRUE]
                 /\ Raise(r, "Missing SONAR_TOKEN")
                 /\ UNCHANGED faults
            ELSE \/ /\ Emit(r, ran \o <<Log(s, "analysis failed with exit code"),
                                            Log(s, "analysis error")>>)
                    /\ Fail(r, "SonarCloud analysis failed")
                 \/ /\ Emit(r, ran \o <<Log(s, "analysis completed"), Log(s, "view results"),
                                            StepOk(s)>>)
                    /\ Goto(r, "build")
  /\ UNCHANGED <<dbVars, loop, prev, sessRun, sessPipe, subVars, ws, cfgVars, unitVars, localImg,
                 hostVars>>

\* docker build -t <slug>:run-<r> <context>: the image is built from the
\* commit checked out in the workspace.
BuildImage(r) == localImg' = [localImg EXCEPT ![r] = ws[SlugOf(r)]]

\* build_context = str(demo_dir) if demo_dir.exists() else str(ws), as logged.
\* (the demo directory taken as context whether it exists or not)
BuildContextAlwaysDemo == "build context: demo"
BuildContext == IF hasDemo THEN "build context: demo" ELSE "build context: workspace"

\* STEP docker_build.
DockerBuild(r) ==
  /\ pc[r] = "build" /\ loop = r
  /\ LET s == "docker_build"
         pre == <<StepStart(s), Log(s, "building image"), Log(s, BuildContext)>> \o Lines(s)
     IN \/ Emit(r, pre) /\ Fail(r, "Command failed: docker build") /\ UNCHANGED localImg
        \/ /\ Emit(r, pre \o <<Log(s, "image built"), StepOk(s)>>)
           /\ BuildImage(r)
           /\ Goto(r, "cleanup")
  /\ UNCHANGED <<dbVars, loop, prev, sessRun, sessPipe, subVars, ws, cfgVars, unitVars, hostVars>>

\* a occurs in b as a contiguous part (docker's name filter matches parts).
IsSubstring(a, b) ==
  \E i \in 1..(Len(b) - Len(a) + 1) : SubSeq(b, i, i + Len(a) - 1) = a

\* cleanup_cmd: stop and remove ALL running containers, remove the
\* containers whose name matches CONTAINER_NAME, remove the images of APP_REPO.
CleanupContainers(g) ==
  {c \in containers : ~c.running /\ ~IsSubstring(g, c.name)}

CleanupImages(g) == {i \in images : i.repo # g}

\* STEP cleanup_old_deploy.
Cleanup(r) ==
  /\ pc[r] = "cleanup" /\ loop = r
  /\ LET s == "cleanup_old_deploy"
         pre == <<StepStart(s), Log(s, "stopping all containers")>>
     IN \/ Emit(r, pre) /\ Fail(r, "Command failed: ssh") /\ UNCHANGED hostVars
        \/ /\ Emit(r, pre \o Lines(s) \o <<StepOk(s)>>)
           /\ containers' = CleanupContainers(SlugOf(r))
           /\ images' = CleanupImages(SlugOf(r))
           /\ UNCHANGED nextCid
           /\ Goto(r, "ship")
  /\ UNCHANGED <<dbVars, loop, prev, sessRun, sessPipe, subVars, ws, cfgVars, unitVars, localImg>>

\* docker save <tag> | ssh docker load: the host holds the image under the tag.
LoadImage(r) ==
  LET g == SlugOf(r)
  IN images' = {i \in images : ~(i.repo = g /\ i.run = r)}
                 \cup {[repo |-> g, run |-> r, commit |-> localImg[r]]}

\* STEP ship_image_ssh.
Ship(r) ==
  /\ pc[r] = "ship" /\ loop = r
  /\ LET s == "ship_image_ssh"
         pre == <<StepStart(s), Log(s, "shipping image"), Log(s, "may take minutes")>>
                  \o Lines(s)
     IN \/ Emit(r, pre) /\ Fail(r, "docker load over ssh failed") /\ UNCHANGED hostVars
        \/ /\ Emit(r, pre \o <<Log(s, "image transferred"), StepOk(s)>>)
           /\ LoadImage(r)
           /\ UNCHANGED <<containers, nextCid>>
           /\ Goto(r, "deploy")
  /\ UNCHANGED <<dbVars, loop, prev, sessRun, sessPipe, subVars, ws, cfgVars, unitVars, localImg>>

\* docker run --name <slug> refuses a name that a container already has.
NameTaken(g) == \E c \in containers : c.name = g

\* docker run -d --name <slug> -p 8080:8080 <slug>:run-<r>: a new container.
StartContainer(r) ==
  /\ containers' = containers \cup
       {[id |-> nextCid, name |-> SlugOf(r), run |-> r, commit |-> localImg[r],
         running |-> TRUE]}
  /\ nextCid' = nextCid + 1
  /\ UNCHANGED images

\* The docker run command of deploy_run, shared by the redeploy after rollback.
DeployCmd(r, s, pre, to) ==
  \/ /\ ~NameTaken(SlugOf(r))
     /\ Emit(r, pre \o Lines(s) \o <<StepOk(s)>>)
     /\ StartContainer(r)
     /\ pc' = [pc EXCEPT ![r] = to]
     /\ hist' = [hist EXCEPT ![r].deployed = TRUE]
     /\ UNCHANGED <<err, faults>>
  \/ /\ NameTaken(SlugOf(r))
     /\ Emit(r, pre \o Lines(s))
     /\ hist' = [hist EXCEPT ![r].raised = TRUE]
     /\ Raise(r, "Command failed: docker run (name in use)")
     /\ UNCHANGED <<hostVars, faults>>
  \/ /\ ~NameTaken(SlugOf(r))
     /\ Emit(r, pre)
     /\ Fail(r, "Command failed: ssh")
     /\ UNCHANGED hostVars

\* STEP deploy_run.
Deploy(r) ==
  /\ pc[r] = "deploy" /\ loop = r
  /\ DeployCmd(r, "deploy_run",
               <<StepStart("deploy_run"), Log("deploy_run", "starting new container")>>,
               "health")
  /\ UNCHANGED <<dbVars, loop, prev, sessRun, sessPipe, subVars, ws, cfgVars, unitVars, localImg>>

\* The verdict of _healthcheck on the deployed service: the environment decides.
\* STEP healthcheck.  On failure step_success is still published; with a previous
\* commit the run enters rollback, else it is marked failed.
Health(r) ==
  /\ pc[r] = "health" /\ loop = r
  /\ LET s == "healthcheck"
         pre == <<StepStart(s), Log(s, "GET url"), Log(s, "waiting for container")>>
         bad == pre \o <<Log(s, "healthcheck FAILED"), Log(s, "triggering rollback"), StepOk(s)>>
     IN \/ /\ Emit(r, pre \o <<Log(s, "healthcheck OK"), StepOk(s)>>)
           /\ hist' = [hist EXCEPT ![r].hc = "ok"]
           /\ pc' = [pc EXCEPT ![r] = "success"]
           /\ UNCHANGED <<faults, sessRun, sessPipe>>
        \/ /\ CanFail
           /\ faults' = faults + 1
           /\ hist' = [hist EXCEPT ![r].hc = "fail"]
           /\ IF prev[r] # 0
                THEN /\ Emit(r, bad)
                     /\ pc' = [pc EXCEPT ![r] = "rollback"]
                     /\ UNCHANGED <<sessRun, sessPipe>>
                ELSE /\ Emit(r, bad \o
                          <<Ev("run_failed", "", "Healthcheck failed - no previous version to rollback to"),
                            Log("error", "healthcheck failed and no previous version")>>)
                     /\ sessPipe' = [sessPipe EXCEPT ![r] = "failed"]
                     /\ sessRun' = [sessRun EXCEPT ![r] = "failed"]
                     /\ pc' = [pc EXCEPT ![r] = "finalize_rb"]
  /\ UNCHANGED <<dbVars, loop, prev, err, subVars, ws, cfgVars, unitVars, localImg, hostVars>>

\* docker stop / docker rm -f of the container named exactly g.
RemoveNamed(g) == {c \in containers : c.name # g}
StopNamed(g) ==
  {c \in containers : c.name # g} \cup
  {[c EXCEPT !.running = FALSE] : c \in {d \in containers : d.name = g}}

\* _rollback_to_previous: stop and remove the container of the slug, check the
\* previous commit out in the workspace.  Every exception is logged and
\* swallowed; step_success is published only when nothing failed.
RollbackToPrevious(r, after, to) ==
  LET s == "rollback"
      g == SlugOf(r)
      stopping == <<StepStart(s), Log(s, "stopping failed container")>>
      failed == <<Log(s, "rollback checkout failed")>>
  IN /\ hist' = [hist EXCEPT ![r].rollbacks = @ + 1]
     /\ pc' = [pc EXCEPT ![r] = to]
     /\ UNCHANGED <<err, images, nextCid>>
     /\ IF prev[r] = 0
          THEN /\ Emit(r, <<StepStart(s), Log(s, "no previous commit available"), StepOk(s)>>
                               \o after)
               /\ UNCHANGED <<containers, ws, faults>>
          ELSE \/ /\ CanFail                       \* ssh fails at docker stop
                  /\ faults' = faults + 1
                  /\ Emit(r, stopping \o failed \o after)
                  /\ UNCHANGED <<containers, ws>>
               \/ /\ CanFail                       \* ssh fails at docker rm
                  /\ faults' = faults + 1
                  /\ Emit(r, stopping \o failed \o after)
                  /\ containers' = StopNamed(g)
                  /\ UNCHANGED ws
               \/ /\ ws[g] = 0 \/ CanFail          \* git checkout fails
                  /\ faults' = IF ws[g] = 0 THEN faults ELSE faults + 1
                  /\ Emit(r, stopping \o <<Log(s, "checking out previous commit")>>
                                  \o failed \o after)
                  /\ containers' = RemoveNamed(g)
                  /\ UNCHANGED ws
               \/ /\ ws[g] # 0
                  /\ Emit(r, stopping \o <<Log(s, "checking out previous commit"),
                                              Log(s, "HEAD is now at"),
                                              Log(s, "rollback checkout completed"),
                                              StepOk(s)>> \o after)
                  /\ containers' = RemoveNamed(g)
                  /\ ws' = [ws EXCEPT ![g] = prev[r]]
                  /\ UNCHANGED faults

\* Rollback after a failed health check, then the announcement of the rebuild.
RollbackHC(r) ==
  /\ pc[r] = "rollback" /\ loop = r
  /\ RollbackToPrevious(r, <<Log("rollback", "now rebuilding and redeploying")>>, "rb_build")
  /\ UNCHANGED <<dbVars, loop, prev, sessRun, sessPipe, subVars, cfgVars, unitVars, localImg>>

\* Rebuild after rollback: docker build of what the workspace now holds.
RbBuild(r) ==
  /\ pc[r] = "rb_build" /\ loop = r
  /\ LET s == "docker_build"
         pre == <<StepStart(s), Log(s, "building image")>> \o Lines(s)
     IN \/ Emit(r, pre) /\ Fail(r, "Command failed: docker build") /\ UNCHANGED localImg
        \/ /\ Emit(r, pre \o <<StepOk(s)>>)
           /\ BuildImage(r)
           /\ pc' = [pc EXCEPT ![r] = "rb_ship"]
           /\ hist' = [hist EXCEPT ![r].rebuilt = TRUE]
           /\ UNCHANGED <<err, faults>>
  /\ UNCHANGED <<dbVars, loop, prev, sessRun, sessPipe, subVars, ws, cfgVars, unitVars, hostVars>>

RbShip(r) ==
  /\ pc[r] = "rb_ship" /\ loop = r
  /\ LET s == "ship_image_ssh"
         pre == <<StepStart(s)>> \o Lines(s)
     IN \/ Emit(r, pre) /\ Fail(r, "docker load over ssh failed") /\ UNCHANGED hostVars
        \/ /\ Emit(r, pre \o <<StepOk(s)>>)
           /\ LoadImage(r)
           /\ UNCHANGED <<containers, nextCid>>
           /\ Goto(r, "rb_deploy")
  /\ UNCHANGED <<dbVars, loop, prev, sessRun, sessPipe, subVars, ws, cfgVars, unitVars, localImg>>

RbDeploy(r) ==
  /\ pc[r] = "rb_deploy" /\ loop = r
  /\ DeployCmd(r, "deploy_run",
               <<StepStart("deploy_run"), Log("deploy_run", "starting container")>>,
               "rb_health")
  /\ UNCHANGED <<dbVars, loop, prev, sessRun, sessPipe, subVars, ws, cfgVars, unitVars, localImg>>

\* The status a run gets from the health check of the rolled-back version.
RollbackVerdict(ok) == IF ok THEN "success" ELSE "failed"

\* healthcheck_rollback: the verdict on the redeployed previous version
\* decides the terminal event and the status held in the session.
RbHealth(r) ==
  /\ pc[r] = "rb_health" /\ loop = r
  /\ LET s == "healthcheck_rollback"
         pre == <<StepStart(s), Log(s, "GET url"), Log(s, "checking rolled-back version")>>
     IN \E ok \in BOOLEAN :
          /\ ok \/ CanFail
          /\ faults' = IF ok THEN faults ELSE faults + 1
          /\ Emit(r, pre \o
               (IF ok THEN <<Log(s, "rollback healthcheck OK"), StepOk(s),
                             Ev("run_success", "", ""),
                             Log("success", "rollback successful")>>
                      ELSE <<Log(s, "rollback healthcheck FAILED"), StepOk(s),
                             Ev("run_failed", "", "Rollback deployed but healthcheck failed"),
                             Log("error", "rollback deployed but healthcheck failed")>>))
          /\ sessPipe' = [sessPipe EXCEPT ![r] = RollbackVerdict(ok)]
          /\ sessRun' = [sessRun EXCEPT ![r] = RollbackVerdict(ok)]
          /\ hist' = [hist EXCEPT ![r].rbhc = IF ok THEN "ok" ELSE "fail"]
  /\ pc' = [pc EXCEPT ![r] = "finalize_rb"]
  /\ UNCHANGED <<dbVars, loop, prev, err, subVars, ws, cfgVars, unitVars, localImg, hostVars>>

\* session.commit(): what the session holds for the run and its pipeline
\* becomes the stored state.
Commit(r, runStatus, pipeStatus) ==
  /\ dbRun' = [dbRun EXCEPT ![r].status = runStatus]
  /\ dbPipeStatus' = [dbPipeStatus EXCEPT ![PipeOf(r)] = pipeStatus]

\* End of the health-failure branch: run.finished_at is assigned, then the
\* session is committed and the orchestrator returns.
FinalizeRb(r) ==
  /\ pc[r] = "finalize_rb" /\ loop = r
  /\ IF FinishedAtAccepted
       THEN /\ Commit(r, sessRun[r], sessPipe[r])
            /\ hist' = [hist EXCEPT ![r].termWrites = @ + 1]
            /\ pc' = [pc EXCEPT ![r] = "returned"]
            /\ loop' = 0
            /\ UNCHANGED err
       ELSE /\ Raise(r, "Run object has no field finished_at")
            /\ UNCHANGED <<dbVars, loop, hist>>
  /\ UNCHANGED <<prev, sessRun, sessPipe, busVars, logs, subVars, ws, cfgVars, unitVars, localImg,
                 hostVars, faults>>

\* SUCCESS: run_success is published, statuses are set, run.finished_at is
\* assigned, then the session is committed.
Success(r) ==
  /\ pc[r] = "success" /\ loop = r
  /\ Emit(r, <<Ev("run_success", "", ""), Log("success", "pipeline completed")>>)
  /\ sessPipe' = [sessPipe EXCEPT ![r] = "success"]
  /\ sessRun' = [sessRun EXCEPT ![r] = "success"]
  /\ IF FinishedAtAccepted
       THEN /\ Commit(r, "success", "success")
            /\ hist' = [hist EXCEPT ![r].termWrites = @ + 1]
            /\ pc' = [pc EXCEPT ![r] = "returned"]
            /\ loop' = 0
            /\ UNCHANGED err
       ELSE /\ Raise(r, "Run object has no field finished_at")
            /\ UNCHANGED <<dbVars, loop, hist>>
  /\ UNCHANGED <<prev, subVars, ws, cfgVars, unitVars, localImg, hostVars, faults>>

\* except Exception: run_failed carries str(e); with a previous commit the
\* rollback is attempted.
Except(r) ==
  /\ pc[r] = "except" /\ loop = r
  /\ Emit(r, <<Ev("run_failed", "", err[r]), Log("error", "pipeline FAILED"),
                  IF prev[r] # 0 THEN Log("error", "attempting rollback to previous commit")
                                 ELSE Log("error", "no previous commit available for rollback")>>)
  /\ pc' = [pc EXCEPT ![r] = IF prev[r] # 0 THEN "rollback_ex" ELSE "fail_final"]
  /\ UNCHANGED <<dbVars, loop, prev, sessRun, sessPipe, err, subVars, ws, cfgVars, unitVars,
                 localImg, hostVars, faults, hist>>

RollbackEx(r) ==
  /\ pc[r] = "rollback_ex" /\ loop = r
  /\ RollbackToPrevious(r, <<>>, "fail_final")
  /\ UNCHANGED <<dbVars, loop, prev, sessRun, sessPipe, subVars, cfgVars, unitVars, localImg>>

\* End of the except block: statuses failed, run.finished_at assigned, commit.
\* An exception raised here leaves run_real_pipeline; the session is closed
\* without a commit.
FailFinal(r) ==
  /\ pc[r] = "fail_final" /\ loop = r
  /\ sessPipe' = [sessPipe EXCEPT ![r] = "failed"]
  /\ sessRun' = [sessRun EXCEPT ![r] = "failed"]
  /\ loop' = 0
  /\ IF FinishedAtAccepted
       THEN /\ Commit(r, "failed", "failed")
            /\ hist' = [hist EXCEPT ![r].termWrites = @ + 1]
            /\ pc' = [pc EXCEPT ![r] = "returned"]
            /\ UNCHANGED err
       ELSE /\ err' = [err EXCEPT ![r] = "Run object has no field finished_at"]
            /\ pc' = [pc EXCEPT ![r] = "crashed"]
            /\ UNCHANGED <<dbVars, hist>>
  /\ UNCHANGED <<prev, busVars, logs, subVars, ws, cfgVars, unitVars, localImg, hostVars, faults>>

Orchestrate(r) ==
  \/ Invoke(r)
  \/ Checkout(r)
  \/ MavenTests(r)
  \/ Sonar(r)
  \/ DockerBuild(r)
  \/ Cleanup(r)
  \/ Ship(r)
  \/ Deploy(r)
  \/ Health(r)
  \/ RollbackHC(r)
  \/ RbBuild(r)
  \/ RbShip(r)
  \/ RbDeploy(r)
  \/ RbHealth(r)
  \/ FinalizeRb(r)
  \/ Success(r)
  \/ Except(r)
  \/ RollbackEx(r)
  \/ FailFinal(r)

\* ------------------------------------------------------- event streams
orchVars == <<dbRun, dbPipeStatus, pc, loop, prev, sessRun, sessPipe, err, ws, hasDemo,
              sonarToken, localImg, images, containers, nextCid, faults, logs, hist>>

RECURSIVE SumLen(_, _)
SumLen(S, r) ==
  IF S = {} THEN 0
  ELSE LET s == CHOOSE x \in S : TRUE
       IN (IF subRun[s] = r THEN Len(received[s]) ELSE 0) + SumLen(S \ {s}, r)

\* Number of events of run r that streams have taken from its queue.
Consumed(r) == SumLen(Subs, r)

\* GET /api/runs/{run_id}/events: q = bus.queue(run_id) creates the key if
\* needed (no check that the run exists); the stream then reads from q.
\* The streams are numbered in the order in which they are opened.
RunEvents(s, r) ==
  /\ loop = 0
  /\ subRun[s] = 0
  /\ \A t \in Subs : t < s => subRun[t] # 0
  /\ subRun' = [subRun EXCEPT ![s] = r]
  /\ subAt' = [subAt EXCEPT ![s] = <<Len(published[r]), Consumed(r)>>]
  /\ chans' = chans \cup {r}
  /\ UNCHANGED <<orchVars, unitVars, queues, published, received>>

\* asyncio.Queue.get: the item at the head, which leaves the queue.
QueueFront(q) == Head(q)
\* (a get that leaves the item in the queue)
QueueRestKeepsItem(q) == q
QueueRest(q) == Tail(q)

\* event_gen: evt = await q.get(); yield evt.  Waits while the queue is empty.
EventGen(s) ==
  /\ loop = 0
  /\ subRun[s] # 0
  /\ queues[subRun[s]] # <<>>
  /\ received' = [received EXCEPT ![s] = Append(@, QueueFront(queues[subRun[s]]))]
  /\ queues' = [queues EXCEPT ![subRun[s]] = QueueRest(@)]
  /\ UNCHANGED <<orchVars, unitVars, chans, published, subRun, subAt>>

\* Events a producer hands to bus.publish.
BusEvents == {Log("checkout", "cloning"), Ev("run_success", "", "")}

\* Number of events published so far for the runs of R.
RECURSIVE TotalPublished(_)
TotalPublished(R) ==
  IF R = {} THEN 0
  ELSE LET r == CHOOSE x \in R : TRUE IN Len(published[r]) + TotalPublished(R \ {r})

\* RunEventBus.publish(run_id, event) called by a producer of run r.
BusPublish(r, e) ==
  /\ TotalPublished(Runs) < MaxEvents
  /\ Publish(r, <<e>>)
  /\ UNCHANGED <<orchVars, unitVars, subVars>>

BusInit == Init /\ ~hasDemo /\ ~sonarToken

BusNext ==
  \/ \E r \in Runs, e \in BusEvents : BusPublish(r, e)
  \/ \E s \in Subs, r \in Runs : RunEvents(s, r)
  \/ \E s \in Subs : EventGen(s)

\* The event bus with its streams, under any producer.
BusSpec == BusInit /\ [][BusNext]_vars

\* ------------------------------------------------------- health prober
serverVars == <<orchVars, busVars, subVars>>

\* What one attempt of _healthcheck meets: a response with a 2xx status, a
\* response with another status (or the HTTPError urlopen raises for it), a
\* network error (no connection, timeout).
Outcomes == {"2xx", "http", "error"}

\* 200 <= r.status < 300
\* (any response counts as healthy)
IsSuccessStatusAny(o) == o # "error"
IsSuccessStatus(o) == o = "2xx"

\* last_error = f"HTTP {r.status}" / last_error = str(e)
LastError(o) == IF o = "http" THEN "HTTP status" ELSE "network error"

\* for attempt in range(1, retries + 1): the range is exhausted.
\* (a range that stops one attempt short)
RangeDoneEarly(attempt, retries) == attempt + 1 >= retries
RangeDone(attempt, retries) == attempt >= retries

\* One pass of the loop body: return on a 2xx, else keep the reason.
ProbeAttempt ==
  /\ probe.at = "loop"
  /\ ~RangeDone(probe.attempt, probe.retries)
  /\ LET a == probe.attempt + 1
         o == probe.outcomes[a]
     IN probe' =
          IF IsSuccessStatus(o)
            THEN [probe EXCEPT !.attempt = a, !.at = "returned", !.ok = TRUE,
                               !.message = [kind |-> "Success on attempt", attempt |-> a,
                                            retries |-> probe.retries, last |-> ""]]
            ELSE [probe EXCEPT !.attempt = a, !.lastError = LastError(o)]
  /\ UNCHANGED <<serverVars, proc, names, snap, xfer, auth>>

\* return False, f"Failed after {retries} attempts. Last error: {last_error}"
ProbeExhausted ==
  /\ probe.at = "loop"
  /\ RangeDone(probe.attempt, probe.retries)
  /\ probe' = [probe EXCEPT !.at = "returned", !.ok = FALSE,
                            !.message = [kind |-> "Failed after", attempt |-> 0,
                                         retries |-> probe.retries,
                                         last |-> probe.lastError]]
  /\ UNCHANGED <<serverVars, proc, names, snap, xfer, auth>>

\* Where the orchestrator goes with the verdict: ok -> SUCCESS; not ok ->
\* the rollback when previous_commit is set, else the run is marked failed.
AfterHealth(ok, previous) ==
  IF ok THEN "success" ELSE IF previous # 0 THEN "rollback" ELSE "finalize_rb"

\* ok, message = _healthcheck(url); if not ok: ...
HealthBranch ==
  /\ probe.at = "returned"
  /\ probe' = [probe EXCEPT !.at = "branched",
                            !.next = AfterHealth(probe.ok, probe.previous)]
  /\ UNCHANGED <<serverVars, proc, names, snap, xfer, auth>>

\* A call of _healthcheck with any retries and any sequence of outcomes.
ProbeInit ==
  /\ OrchInit /\ NoCheckout /\ ~hasDemo /\ ~sonarToken
  /\ proc = NoProc /\ names = NoNames /\ snap = NoSnap /\ xfer = NoXfer /\ auth = NoAuth
  /\ probe \in {[NoProbe EXCEPT !.retries = n, !.outcomes = o, !.previous = c,
                                  !.at = "loop"] :
                   n \in 0..MaxAttempts, o \in [1..MaxAttempts -> Outcomes],
                   c \in {0} \cup Commits}

ProbeNext == ProbeAttempt \/ ProbeExhausted \/ HealthBranch

ProbeSpec == ProbeInit /\ [][ProbeNext]_vars

\* ------------------------------------------------------- process runner
\* Arguments of a command, as sequences of characters.
Args == {<<"a">>, <<"b">>, <<"a", " ", "b">>}
ArgVectors == UNION {[1..n -> Args] : n \in 1..MaxArgs}

\* What the process writes to its merged stdout/stderr, line by line.
OutputLines == {"x", "y"}
Outputs == UNION {[1..n -> OutputLines] : n \in 0..MaxOut}
ExitCodes == {0, 1, 2}

\* ' '.join(cmd)
RECURSIVE Join(_)
Join(v) ==
  IF v = <<>> THEN <<>>
  ELSE IF Len(v) = 1 THEN v[1] ELSE v[1] \o <<" ">> \o Join(Tail(v))

\* RuntimeError(f"Command failed ({rc}): {' '.join(cmd)}")
CommandFailed(rc, cmd) == [rc |-> rc, text |-> Join(cmd)]

\* if rc != 0
\* (an exit code that is never taken for a failure)
ExitFailsNever(rc) == FALSE
ExitFails(rc) == rc # 0

\* for line in p.stdout: yield line
CmdYield ==
  /\ proc.at = "running"
  /\ Len(proc.seen) < Len(proc.out)
  /\ proc' = [proc EXCEPT !.seen = Append(@, proc.out[Len(proc.seen) + 1])]
  /\ UNCHANGED <<serverVars, probe, names, snap, xfer, auth>>

\* rc = p.wait() once the output has ended; raise on a non-zero code.
CmdWait ==
  /\ proc.at = "running"
  /\ Len(proc.seen) = Len(proc.out)
  /\ proc' = IF ExitFails(proc.rc)
               THEN [proc EXCEPT !.at = "raised",
                                 !.failure = CommandFailed(proc.rc, proc.cmd)]
               ELSE [proc EXCEPT !.at = "done"]
  /\ UNCHANGED <<serverVars, probe, names, snap, xfer, auth>>

\* A call of _run_cmd with any command, output and exit code.
CmdInit ==
  /\ OrchInit /\ NoCheckout /\ ~hasDemo /\ ~sonarToken
  /\ probe = NoProbe /\ names = NoNames /\ snap = NoSnap /\ xfer = NoXfer /\ auth = NoAuth
  /\ proc \in {[NoProc EXCEPT !.cmd = v, !.out = o, !.rc = c, !.at = "running"] :
                  v \in ArgVectors, o \in Outputs, c \in ExitCodes}

CmdNext == CmdYield \/ CmdWait

CmdSpec == CmdInit /\ [][CmdNext]_vars

\* ------------------------------------------------------- slug derivation
NameChars == {"M", "m", "_", "-", " "}
Names == UNION {[1..n -> NameChars] : n \in 0..MaxNameLen}

\* base / sanitized_name
WorkspacePath(g) == <<"~/.cicd/workspaces", g>>
\* base / sanitized_name / "logs" / f"{sanitized_name}.log"
LogFile(g) == <<"~/.cicd/workspaces", g, "logs", g \o <<".log">> >>
\* container_name = sanitized_name
ContainerName(g) == g

\* sanitized_name = _sanitize_name(pipeline.name), for two pipelines.
Sanitize ==
  /\ names.at = "given"
  /\ names' = [names EXCEPT !.sa = SanitizeName(names.a), !.sb = SanitizeName(names.b),
                            !.at = "once"]
  /\ UNCHANGED <<serverVars, probe, proc, snap, xfer, auth>>

\* _sanitize_name applied to a slug (a pipeline named like a slug).
SanitizeAgain ==
  /\ names.at = "once"
  /\ names' = [names EXCEPT !.ssa = SanitizeName(names.sa), !.at = "twice"]
  /\ UNCHANGED <<serverVars, probe, proc, snap, xfer, auth>>

\* Any two pipeline names (create_pipeline accepts any non-empty name; the
\* empty one stands for what _sanitize_name itself accepts).
NameInit ==
  /\ OrchInit /\ NoCheckout /\ ~hasDemo /\ ~sonarToken
  /\ probe = NoProbe /\ proc = NoProc /\ snap = NoSnap /\ xfer = NoXfer /\ auth = NoAuth
  /\ names \in {[NoNames EXCEPT !.a = x, !.b = y, !.at = "given"] : x \in Names, y \in Names}

NameNext == Sanitize \/ SanitizeAgain

NameSpec == NameInit /\ [][NameNext]_vars

\* ------------------------------------------------------- state snapshotter
\* The snapshot functions are imported by tests/test_rollback.py but are not
\* part of runner_real.py; they are modelled from the contract of the State
\* Snapshotter and from the calls and expectations of those tests.  0 stands
\* for None.
SshOutcomes == {"ok", "error"}
ContainerIds == 1..NumRuns
ImageRefs == 1..NumRuns

GetRunningContainerUnguarded(ssh, running) == running

\* _get_running_container: the id printed by docker ps -q for the container
\* name, None when nothing is printed or the query raises.
GetRunningContainer(ssh, running) == IF ssh = "error" THEN 0 ELSE running

\* _get_container_image: the image printed for the container, None when
\* nothing is printed or the query raises.
GetContainerImage(ssh, image) == IF ssh = "error" THEN 0 ELSE image

\* _save_previous_state: the dictionary exists / container_id / image.
SavePreviousState(cid, img) ==
  IF cid = 0 THEN [exists |-> FALSE, container_id |-> 0, image |-> 0]
             ELSE [exists |-> TRUE, container_id |-> cid, image |-> img]

QueryContainer ==
  /\ snap.at = "given"
  /\ snap' = [snap EXCEPT !.container = GetRunningContainer(snap.ssh1, snap.running),
                          !.at = "queried"]
  /\ UNCHANGED <<serverVars, probe, proc, names, xfer, auth>>

QueryImage ==
  /\ snap.at = "queried" /\ snap.container # 0
  /\ snap' = [snap EXCEPT !.inspected = GetContainerImage(snap.ssh2, snap.image),
                          !.at = "inspected"]
  /\ UNCHANGED <<serverVars, probe, proc, names, xfer, auth>>

SaveState ==
  /\ \/ snap.at = "queried" /\ snap.container = 0
     \/ snap.at = "inspected"
  /\ snap' = [snap EXCEPT !.state = SavePreviousState(snap.container, snap.inspected),
                          !.at = "saved"]
  /\ UNCHANGED <<serverVars, probe, proc, names, xfer, auth>>

SnapInit ==
  /\ OrchInit /\ NoCheckout /\ ~hasDemo /\ ~sonarToken
  /\ probe = NoProbe /\ proc = NoProc /\ names = NoNames /\ xfer = NoXfer /\ auth = NoAuth
  /\ snap \in {[NoSnap EXCEPT !.running = c, !.image = i, !.ssh1 = a, !.ssh2 = b,
                               !.at = "given"] :
                  c \in {0} \cup ContainerIds, i \in {0} \cup ImageRefs,
                  a \in SshOutcomes, b \in SshOutcomes}

SnapNext == QueryContainer \/ QueryImage \/ SaveState

SnapSpec == SnapInit /\ [][SnapNext]_vars

\* ------------------------------------------- identity and role guard
Emails == 1..NumUsers
Role == {"admin", "dev", "viewer"}

\* settings.bootstrap_admin_email and email.lower() == bootstrap.lower()
IsBootstrap(e) == auth.bootstrap # 0 /\ e = auth.bootstrap

\* get_current_user: the role the caller has once the dependency returns.  A
\* caller without a row gets one, as viewer, or as admin under the bootstrap
\* e-mail; a stored bootstrap user is made admin again.
CurrentRole(e) ==
  IF IsBootstrap(e) THEN "admin"
  ELSE IF auth.users[e] = "none" THEN "viewer" ELSE auth.users[e]

\* The user table after get_current_user has committed.
UsersSeen(e) == [auth.users EXCEPT ![e] = CurrentRole(e)]

RequireRoleAnyone(role, roles) == TRUE

\* require_role(*roles): 403 unless user.role in roles.
RequireRole(role, roles) == role \in roles

\* Answer of a request without identity headers: 401, nothing touched.
Unauthenticated(op, named, pid) ==
  auth' = [auth EXCEPT !.answer = [NoAnswer EXCEPT !.op = op, !.named = named, !.pid = pid,
                                     !.status = 401, !.pipes = auth.pipes,
                                     !.runs = auth.runs, !.tasks = auth.tasks]]

\* POST /api/pipelines by e; named: the payload holds a name and a repo_url.
CreatePipelineAs(e, named) ==
  /\ auth.pipes < MaxRows
  /\ IF e = 0 THEN Unauthenticated("create", named, 0)
     ELSE LET role == CurrentRole(e)
              ans == [NoAnswer EXCEPT !.op = "create", !.email = e, !.role = role,
                                      !.named = named, !.pipes = auth.pipes,
                                      !.runs = auth.runs, !.tasks = auth.tasks]
          IN IF ~RequireRole(role, {"admin", "dev"})
               THEN auth' = [auth EXCEPT !.users = UsersSeen(e),
                                         !.answer = [ans EXCEPT !.status = 403]]
             ELSE IF ~named
               THEN auth' = [auth EXCEPT !.users = UsersSeen(e),
                                         !.answer = [ans EXCEPT !.status = 400]]
             ELSE auth' = [auth EXCEPT !.users = UsersSeen(e),
                                       !.pipes = @ + 1,
                                       !.answer = [ans EXCEPT !.status = 201, !.name = TRUE]]
  /\ UNCHANGED <<serverVars, probe, proc, names, snap, xfer>>

\* POST /api/pipelines/{pid}/run by e.
RunPipelineAs(e, pid) ==
  /\ auth.tasks < MaxRows
  /\ IF e = 0 THEN Unauthenticated("run", FALSE, pid)
     ELSE LET role == CurrentRole(e)
              ans == [NoAnswer EXCEPT !.op = "run", !.email = e, !.role = role,
                                      !.pid = pid, !.pipes = auth.pipes,
                                      !.runs = auth.runs, !.tasks = auth.tasks]
          IN IF ~RequireRole(role, {"admin", "dev"})
               THEN auth' = [auth EXCEPT !.users = UsersSeen(e),
                                         !.answer = [ans EXCEPT !.status = 403]]
             ELSE IF pid > auth.pipes
               THEN auth' = [auth EXCEPT !.users = UsersSeen(e),
                                         !.answer = [ans EXCEPT !.status = 404]]
             ELSE auth' = [auth EXCEPT !.users = UsersSeen(e),
                                       !.runs = @ + 1, !.tasks = @ + 1,
                                       !.answer = [ans EXCEPT !.status = 201]]
  /\ UNCHANGED <<serverVars, probe, proc, names, snap, xfer>>

AuthInit ==
  /\ OrchInit /\ NoCheckout /\ ~hasDemo /\ ~sonarToken
  /\ probe = NoProbe /\ proc = NoProc /\ names = NoNames /\ snap = NoSnap /\ xfer = NoXfer
  /\ auth \in {[NoAuth EXCEPT !.users = u, !.bootstrap = b] :
                  u \in [Emails -> Role \cup {"none"}], b \in {0} \cup Emails}

AuthNext ==
  \/ \E e \in {0} \cup Emails, named \in BOOLEAN : CreatePipelineAs(e, named)
  \/ \E e \in {0} \cup Emails, pid \in 1..(MaxRows + 1) : RunPipelineAs(e, pid)

AuthSpec == AuthInit /\ [][AuthNext]_vars

\* ------------------------------------------------- user administration
\* A role request is [user, role, status]; user 0 is the id of a deleted user.
RequestStatus == {"pending", "approved", "rejected"}

AdminCount(users) == Cardinality({e \in Emails : users[e] = "admin"})

\* get_next_roles
GetNextRoles(role) ==
  IF role = "viewer" THEN {"dev", "admin"}
  ELSE IF role = "dev" THEN {"admin"}
  ELSE {}

\* A handler that raises after get_current_user: only the caller's row, as
\* that dependency left it, is committed.
Refused(a) == auth' = [auth EXCEPT !.users = UsersSeen(a)]

\* POST /api/admin/users by a: a user u with the given role.
CreateUser(a, u, role) ==
  /\ IF ~RequireRole(CurrentRole(a), {"admin"}) THEN Refused(a)
     ELSE IF UsersSeen(a)[u] # "none" THEN Refused(a)
     ELSE auth' = [auth EXCEPT !.users = [UsersSeen(a) EXCEPT ![u] = role]]
  /\ UNCHANGED <<serverVars, probe, proc, names, snap, xfer>>

\* PUT /api/admin/users/{u}/role by a.
SetRole(a, u, role) ==
  /\ IF ~RequireRole(CurrentRole(a), {"admin"}) THEN Refused(a)
     ELSE IF UsersSeen(a)[u] = "none" THEN Refused(a)
     ELSE auth' = [auth EXCEPT !.users = [UsersSeen(a) EXCEPT ![u] = role]]
  /\ UNCHANGED <<serverVars, probe, proc, names, snap, xfer>>

\* DELETE /api/admin/users/{u} by a: not oneself, not the last admin; the
\* user's requests that are not approved go with the user.
DeleteUser(a, u) ==
  /\ LET users == UsersSeen(a)
     IN IF ~RequireRole(CurrentRole(a), {"admin"}) THEN Refused(a)
        ELSE IF users[u] = "none" THEN Refused(a)
        ELSE IF a = u THEN Refused(a)
        ELSE IF users[u] = "admin" /\ AdminCount(users) <= 1 THEN Refused(a)
        ELSE auth' = [auth EXCEPT
               !.users = [users EXCEPT ![u] = "none"],
               !.requests = {q \in @ : q.user # u} \cup
                            {[q EXCEPT !.user = 0] :
                               q \in {x \in @ : x.user = u /\ x.status = "approved"}}]
  /\ UNCHANGED <<serverVars, probe, proc, names, snap, xfer>>

\* POST /api/users/request-role by e.
RequestRole(e, role) ==
  /\ Cardinality(auth.requests) < MaxRows
  /\ IF CurrentRole(e) = "admin" THEN Refused(e)
     ELSE IF role \notin GetNextRoles(CurrentRole(e)) THEN Refused(e)
     ELSE IF [user |-> e, role |-> role, status |-> "pending"] \in auth.requests
       THEN Refused(e)
     ELSE auth' = [auth EXCEPT
            !.users = UsersSeen(e),
            !.requests = @ \cup {[user |-> e, role |-> role, status |-> "pending"]}]
  /\ UNCHANGED <<serverVars, probe, proc, names, snap, xfer>>

\* PUT /api/admin/role-requests/{q}/approve by a: the user gets the requested
\* role, whatever the request's status and the user's role are by now.
ApproveRoleRequest(a, q) ==
  /\ q \in auth.requests
  /\ LET users == UsersSeen(a)
     IN IF ~RequireRole(CurrentRole(a), {"admin"}) THEN Refused(a)
        ELSE IF q.user = 0 THEN Refused(a)
        ELSE auth' = [auth EXCEPT
               !.users = [users EXCEPT ![q.user] = q.role],
               !.requests = (@ \ {q}) \cup {[q EXCEPT !.status = "approved"]}]
  /\ UNCHANGED <<serverVars, probe, proc, names, snap, xfer>>

\* PUT /api/admin/role-requests/{q}/reject by a.
RejectRoleRequest(a, q) ==
  /\ q \in auth.requests
  /\ IF ~RequireRole(CurrentRole(a), {"admin"}) THEN Refused(a)
     ELSE auth' = [auth EXCEPT
            !.users = UsersSeen(a),
            !.requests = (@ \ {q}) \cup {[q EXCEPT !.status = "rejected"]}]
  /\ UNCHANGED <<serverVars, probe, proc, names, snap, xfer>>

\* Any user table with at least one admin, no role request yet.
AdminInit ==
  /\ OrchInit /\ NoCheckout /\ ~hasDemo /\ ~sonarToken
  /\ probe = NoProbe /\ proc = NoProc /\ names = NoNames /\ snap = NoSnap /\ xfer = NoXfer
  /\ auth \in {[NoAuth EXCEPT !.users = u, !.bootstrap = b] :
                  u \in {v \in [Emails -> Role \cup {"none"}] : AdminCount(v) >= 1},
                  b \in {0} \cup Emails}

AdminNext ==
  \/ \E a \in Emails, u \in Emails, role \in Role : CreateUser(a, u, role)
  \/ \E a \in Emails, u \in Emails, role \in Role : SetRole(a, u, role)
  \/ \E a \in Emails, u \in Emails : DeleteUser(a, u)
  \/ \E e \in Emails, role \in Role : RequestRole(e, role)
  \/ \E a \in Emails, q \in auth.requests : ApproveRoleRequest(a, q)
  \/ \E a \in Emails, q \in auth.requests : RejectRoleRequest(a, q)

AdminSpec == AdminInit /\ [][AdminNext]_vars

\* ------------------------------------------------------- image transfer
\* What docker save writes to its stderr.
SaveStderr == {"", "no such image"}

\* RuntimeError(f"docker save failed (exit code {save_rc}): {save_stderr}")
SaveFailed(rc, stderr) == [kind |-> "docker save failed", rc |-> rc, text |-> <<stderr>>]

\* RuntimeError(f"docker load over ssh failed (exit code {load_rc}):\n" + "".join(output))
LoadFailed(rc, output) == [kind |-> "docker load over ssh failed", rc |-> rc, text |-> output]

\* for line in load.stdout: output.append(line); yield line
XferYield ==
  /\ xfer.at = "running"
  /\ Len(xfer.seen) < Len(xfer.out)
  /\ xfer' = [xfer EXCEPT !.seen = Append(@, xfer.out[Len(xfer.seen) + 1])]
  /\ UNCHANGED <<serverVars, probe, proc, names, snap, auth>>

\* load.wait(), save.wait(); the code of docker save is looked at first.
XferWait ==
  /\ xfer.at = "running"
  /\ Len(xfer.seen) = Len(xfer.out)
  /\ xfer' = IF ExitFails(xfer.save_rc)
               THEN [xfer EXCEPT !.at = "raised",
                                 !.failure = SaveFailed(xfer.save_rc, xfer.save_stderr)]
             ELSE IF ExitFails(xfer.load_rc)
               THEN [xfer EXCEPT !.at = "raised",
                                 !.failure = LoadFailed(xfer.load_rc, xfer.seen)]
             ELSE [xfer EXCEPT !.at = "done"]
  /\ UNCHANGED <<serverVars, probe, proc, names, snap, auth>>

\* A call of _docker_save_and_load_over_ssh with any exit codes and outputs.
XferInit ==
  /\ OrchInit /\ NoCheckout /\ ~hasDemo /\ ~sonarToken
  /\ probe = NoProbe /\ proc = NoProc /\ names = NoNames /\ snap = NoSnap /\ auth = NoAuth
  /\ xfer \in {[NoXfer EXCEPT !.save_rc = a, !.load_rc = b, !.out = o, !.save_stderr = e,
                               !.at = "running"] :
                  a \in ExitCodes, b \in ExitCodes, o \in Outputs, e \in SaveStderr}

XferNext == XferYield \/ XferWait

XferSpec == XferInit /\ [][XferNext]_vars

\* ------------------------------------------------------------- one run
\* The first run after the server started; the workspaces are kept on disk
\* (~/.cicd/workspaces), so each may hold the checkout an earlier run left.
OneRunInit ==
  /\ OrchInit
  /\ ws \in [Slugs -> {0} \cup Commits]
  /\ probe = NoProbe /\ proc = NoProc /\ names = NoNames /\ snap = NoSnap
  /\ xfer = NoXfer /\ auth = NoAuth

OneRunNext ==
  \/ \E p \in Pipelines : RunPipeline(1, p)
  \/ Orchestrate(1)

OneRunSpec == OneRunInit /\ [][OneRunNext]_vars

Next ==
  \/ \E r \in Runs, p \in Pipelines : RunPipeline(r, p)
  \/ \E r \in Runs : Orchestrate(r)

Spec == Init /\ [][Next]_vars
\* ================================================================ claims
Terminal == {"success", "failed"}

\* run_real_pipeline has returned or has raised to its caller.
Ended(r) == pc[r] \in {"returned", "crashed"}

\* C1: for every run the orchestrator stores a terminal status (success or
\* failed) exactly once: when run_real_pipeline is over, exactly one commit
\* has stored a terminal status for the run.
C1_TerminalWrittenExactlyOnce ==
  \A r \in Runs : Ended(r) => hist[r].termWrites = 1

\* C2: every run the orchestrator was invoked for ends with status success or
\* failed stored: no run is left in status running once the orchestrator is
\* over (every external command and probe having terminated).
C2_NoRunLeftRunning ==
  \A r \in Runs : Ended(r) /\ hist[r].started => dbRun[r].status \in Terminal

\* The run triggered the rollback protocol: its health check failed or one
\* of its steps raised an error.
TriggeredRollback(r) == hist[r].hc = "fail" \/ hist[r].raised

\* C3: a run whose health check failed or one of whose steps raised an error
\* is stored failed, whatever the rollback did.
C3_RollbackRunRecordedFailed ==
  \A r \in Runs : Ended(r) /\ TriggeredRollback(r) => dbRun[r].status = "failed"

\* C4: with a prior running deployment, after a failed health check the run
\* ends failed and the container that was running before the run is running
\* again: same container id, same image.
C4_PreviousContainerRestored ==
  \A r \in Runs :
    Ended(r) /\ hist[r].pre # {} /\ hist[r].hc = "fail"
      => /\ dbRun[r].status = "failed"
         /\ \A c \in hist[r].pre : c \in containers

NoPreviousVersion == "Healthcheck failed - no previous version to rollback to"

\* C5: with no prior deployment of the pipeline, a failed health check leads
\* to no rollback work (no call of the rollback, no rebuild) and the run is
\* stored failed, a run_failed event giving the 'no previous version' reason.
C5_NoPriorDeploymentNoOp ==
  \A r \in Runs :
    Ended(r) /\ ~hist[r].prior /\ hist[r].hc = "fail"
      => /\ hist[r].rollbacks = 0
         /\ ~hist[r].rebuilt
         /\ dbRun[r].status = "failed"
         /\ \E i \in 1..Len(published[r]) :
              published[r][i].type = "run_failed" /\ published[r][i].msg = NoPreviousVersion

\* The run has begun its work and no terminal status is stored for it.
InFlight(r) == hist[r].started /\ dbRun[r].status \notin Terminal

\* C6: at most one run per pipeline is in flight: a run of a pipeline begins
\* its steps only when every other run of that pipeline that has begun has
\* reached a terminal state.
C6_OneRunInFlightPerPipeline ==
  \A r1, r2 \in Runs :
    r1 # r2 /\ PipeOf(r1) = PipeOf(r2) => ~(InFlight(r1) /\ InFlight(r2))

IsTerminalEv(e) == e.type \in {"run_success", "run_failed"}

\* State of the recogniser of run_start (step_start log* step_success)*
\* (run_success | run_failed) after reading E: "bad" once E cannot match.
RECURSIVE Shape(_, _)
Shape(E, st) ==
  IF E = <<>> THEN st
  ELSE LET t == Head(E).type
           nx == CASE st = "init" /\ t = "run_start" -> "between"
                   [] st = "between" /\ t = "step_start" -> "step"
                   [] st = "between" /\ IsTerminalEv(Head(E)) -> "end"
                   [] st = "step" /\ t = "log" -> "step"
                   [] st = "step" /\ t = "step_success" -> "between"
                   [] OTHER -> "bad"
       IN Shape(Tail(E), nx)

\* Every log event lies between the step_start and the step_success of its step.
LogsInsideTheirStep(E) ==
  \A i \in 1..Len(E) :
    E[i].type = "log" =>
      \E j \in 1..(i - 1) :
        /\ E[j].type = "step_start" /\ E[j].step = E[i].step
        /\ \A k \in (j + 1)..(i - 1) : E[k].type \notin {"step_start", "step_success"}

\* C7: the events a run publishes match run_start, (step_start, log*,
\* step_success)*, (run_success | run_failed): run_start first, each log
\* within its step, exactly one terminal event, which is the last event.
C7_EventSequenceShape ==
  \A r \in Runs :
    Ended(r) => Shape(published[r], "init") = "end" /\ LogsInsideTheirStep(published[r])

\* C8: whatever the number of streams of a run, what a stream has observed is
\* a contiguous part of the run's published sequence, in publish order:
\* nothing skipped, reordered or duplicated.
C8_StreamSeesContiguousEvents ==
  \A s \in Subs :
    \A i \in 1..(Len(received[s]) - 1) : received[s][i + 1].n = received[s][i].n + 1

InSeq(e, q) == \E i \in 1..Len(q) : q[i] = e

\* C9: with two or more streams attached to a run, an event published while
\* a stream is attached and consumed by another stream is still delivered to
\* it: it has received the event or the event still waits in the queue.
C9_EveryStreamGetsEveryEvent ==
  \A s1, s2 \in Subs :
    s1 # s2 /\ subRun[s1] # 0 /\ subRun[s1] = subRun[s2]
      => \A i \in 1..Len(received[s1]) :
           received[s1][i].n > subAt[s2][1]
             => InSeq(received[s1][i], received[s2]) \/ InSeq(received[s1][i], queues[subRun[s2]])

C11_PublishNeverWaits ==
  \A r \in Runs :
    /\ ~QueueFull(queues[r])
    /\ (\A s \in Subs : subRun[s] # r) => queues[r] = published[r]

\* Two events were published for a run whose attached stream has consumed
\* nothing yet.
C11_Witness_PublishedPastIdleStream ==
  \E r \in Runs :
    /\ Len(published[r]) >= 2
    /\ queues[r] = published[r]
    /\ \E s \in Subs : subRun[s] = r /\ subAt[s][1] = 0

\* r is the only run of its pipeline that the orchestrator was invoked for.
OnlyStarted(r) ==
  \A q \in Runs : q # r /\ PipeOf(q) = PipeOf(r) => ~hist[q].started

HasEvent(r, t) == \E i \in 1..Len(published[r]) : published[r][i].type = t

\* C12: when a step raises an error the orchestrator publishes run_failed
\* with the error message, runs the rollback (a previous commit being known)
\* and then stores both the run and its pipeline as failed.
C12_StepErrorStoredFailed ==
  \A r \in Runs :
    Ended(r) /\ hist[r].raised /\ OnlyStarted(r)
      => /\ \E i \in 1..Len(published[r]) :
              published[r][i].type = "run_failed" /\ published[r][i].msg # ""
         /\ prev[r] # 0 => hist[r].rollbacks >= 1
         /\ dbRun[r].status = "failed"
         /\ dbPipeStatus[PipeOf(r)] = "failed"

\* The steps of the linear sequence, in the order run_real_pipeline runs them.
StepOrder == <<"checkout", "maven_tests", "sonarcloud_analysis", "docker_build",
               "cleanup_old_deploy", "ship_image_ssh", "deploy_run", "healthcheck">>

InOrder(s) == \E k \in 1..Len(StepOrder) : StepOrder[k] = s
Pos(s) == CHOOSE k \in 1..Len(StepOrder) : StepOrder[k] = s

IsStart(e) == e.type = "step_start" /\ InOrder(e.step)

\* The step started at E[i] failed: run_failed follows its step_start before
\* any step_success or further step_start.
FailedStepAt(E, i) ==
  /\ IsStart(E[i])
  /\ \E f \in (i + 1)..Len(E) :
       /\ E[f].type = "run_failed"
       /\ \A k \in (i + 1)..(f - 1) : E[k].type \notin {"step_start", "step_success"}

\* C13: the steps run one after the other in the fixed order: the step_start
\* of a step comes after the step_success of every earlier step of the
\* sequence, and after a step has failed no later step of the sequence starts.
C13_StepsInFixedOrder ==
  \A r \in Runs :
    LET E == published[r]
    IN /\ \A i \in 1..Len(E) :
            IsStart(E[i]) =>
              \A k \in 1..(Pos(E[i].step) - 1) :
                \E j \in 1..(i - 1) :
                  E[j].type = "step_success" /\ E[j].step = StepOrder[k]
       /\ \A i \in 1..Len(E) :
            FailedStepAt(E, i) =>
              \A j \in (i + 1)..Len(E) :
                IsStart(E[j]) => Pos(E[j].step) <= Pos(E[i].step)

\* A run is over whose cleanup step failed after three steps had succeeded.
C13_Witness_FailedMidSequence ==
  \E r \in Runs :
    /\ Ended(r)
    /\ \E i \in 1..Len(published[r]) :
         FailedStepAt(published[r], i) /\ published[r][i].step = "cleanup_old_deploy"

HasStepOk(r, s) ==
  \E i \in 1..Len(published[r]) :
    published[r][i].type = "step_success" /\ published[r][i].step = s

\* C14: step_success is never published for a step whose work failed: not for
\* a failed health check (of the new or of the rolled-back deployment), and
\* the last step started before a run_failed event has no step_success.
C14_NoStepSuccessForFailedStep ==
  \A r \in Runs :
    LET E == published[r]
    IN /\ hist[r].hc = "fail" => ~HasStepOk(r, "healthcheck")
       /\ hist[r].rbhc = "fail" => ~HasStepOk(r, "healthcheck_rollback")
       /\ \A f \in 1..Len(E) :
            E[f].type = "run_failed" =>
              \E i \in 1..(f - 1) :
                /\ E[i].type = "step_start"
                /\ \A k \in (i + 1)..(f - 1) :
                     E[k].type \notin {"step_start", "step_success"}

\* C15: a run whose steps succeeded and whose health check returned ok is
\* stored success, its pipeline is stored success and run_success was
\* published; a run whose health check failed enters the rollback.
C15_HealthyRunStoredSuccess ==
  \A r \in Runs :
    /\ Ended(r) /\ hist[r].hc = "ok" /\ OnlyStarted(r)
         => /\ dbRun[r].status = "success"
            /\ dbPipeStatus[PipeOf(r)] = "success"
            /\ HasEvent(r, "run_success")
    /\ Ended(r) /\ hist[r].hc = "fail" /\ prev[r] # 0 => hist[r].rollbacks >= 1

ProbeOver == probe.at \in {"returned", "branched"}

\* The attempts among the first retries that meet a 2xx response.
Healthy2xx == {k \in 1..probe.retries : probe.outcomes[k] = "2xx"}

\* C17: the prober returns ok iff one of the first retries attempts meets a
\* 2xx, and then it has made exactly as many attempts as the index of the
\* first 2xx; a network error or another status never ends it before attempt
\* retries: while it loops no attempt made so far met a 2xx, and it returns
\* not ok only after retries attempts.
C17_ProbeStopsAtFirst2xx ==
  /\ probe.at = "loop" => \A k \in 1..probe.attempt : probe.outcomes[k] # "2xx"
  /\ ProbeOver =>
       /\ probe.ok <=> Healthy2xx # {}
       /\ probe.ok => /\ probe.attempt \in Healthy2xx
                       /\ \A k \in Healthy2xx : probe.attempt <= k
                       /\ probe.message.attempt = probe.attempt
       /\ ~probe.ok => probe.attempt = probe.retries

\* The prober returned ok at its third attempt, after a network error and a
\* response with another status.
C17_Witness_OkAtThirdAttempt ==
  /\ ProbeOver /\ probe.ok /\ probe.attempt = 3
  /\ probe.outcomes[1] = "error" /\ probe.outcomes[2] = "http"

\* C18: when no attempt meets a 2xx the prober makes exactly retries
\* attempts and returns (False, message), the message naming retries and the
\* reason of the last attempt; the orchestrator then takes the failure
\* branch, which calls the rollback when a previous commit is known and else
\* marks the run failed.
C18_ProbeExhaustsThenRollback ==
  ProbeOver /\ Healthy2xx = {} =>
    /\ probe.attempt = probe.retries
    /\ ~probe.ok
    /\ probe.message.kind = "Failed after"
    /\ probe.message.retries = probe.retries
    /\ probe.retries > 0 =>
         probe.message.last = (IF probe.outcomes[probe.retries] = "http"
                                 THEN "HTTP status" ELSE "network error")
    /\ probe.at = "branched" =>
         /\ probe.next # "success"
         /\ probe.previous # 0 => probe.next = "rollback"

\* Three attempts, none healthy, the last a network error: the prober
\* returned not ok and the orchestrator went to the rollback.
C18_Witness_ThreeAttemptsThenRollback ==
  /\ probe.at = "branched" /\ probe.retries = 3 /\ probe.attempt = 3
  /\ ~probe.ok /\ probe.message.last = "network error"
  /\ probe.next = "rollback"

SkipLog == "no demo directory, skipping tests"

\* C19: without the demo directory the maven_tests step publishes
\* step_start, the skip log and step_success and nothing else (no output of a
\* compile or test command), no error of the build/test steps is raised, and
\* the run goes on to docker_build with the workspace root as build context.
C19_AbsentBuildDirSkipped ==
  ~hasDemo =>
    \A r \in Runs :
      LET E == published[r]
      IN /\ \A i \in 1..Len(E) :
              E[i].step = "maven_tests" =>
                \/ E[i].type = "step_start" /\ i + 2 <= Len(E)
                     /\ E[i + 1].type = "log" /\ E[i + 1].msg = SkipLog
                     /\ E[i + 2].type = "step_success" /\ E[i + 2].step = "maven_tests"
                \/ E[i].type = "log" /\ E[i].msg = SkipLog
                \/ E[i].type = "step_success"
         /\ err[r] \notin {"Command failed: mvnw clean compile", "Command failed: mvnw test",
                            "Missing SONAR_TOKEN", "SonarCloud analysis failed"}
         /\ HasStepOk(r, "maven_tests") /\ pc[r] \notin {"sonar", "build"}
              => \E i \in 1..Len(E) : E[i].type = "step_start" /\ E[i].step = "docker_build"
         /\ \A i \in 1..Len(E) :
              E[i].step = "docker_build" /\ E[i].type = "log"
                => E[i].msg # "build context: demo"
         /\ HasStepOk(r, "docker_build")
              => \E i \in 1..Len(E) : E[i] = [type |-> "log", step |-> "docker_build",
                                              msg |-> "build context: workspace", n |-> i]

\* A run without demo directory has skipped the tests and built its image.
C19_Witness_SkippedAndPackaged ==
  \E r \in Runs :
    /\ ~hasDemo /\ pc[r] = "cleanup"
    /\ HasStepOk(r, "maven_tests") /\ HasStepOk(r, "docker_build")

IsPrefix(a, b) == Len(a) <= Len(b) /\ SubSeq(b, 1, Len(a)) = a

\* What holds of any call of _run_cmd: the consumer sees the lines in the
\* order the process wrote them, the failure comes after the last line and
\* only for a non-zero code, which it carries.
LinesThenVerdict ==
  /\ IsPrefix(proc.seen, proc.out)
  /\ proc.at = "raised" =>
       proc.seen = proc.out /\ proc.rc # 0 /\ proc.failure.rc = proc.rc
  /\ proc.at = "done" =>
       proc.seen = proc.out /\ proc.rc = 0 /\ proc.failure = NoFailure

\* C20 as stated: lines in order, then for a non-zero code a failure that
\* carries the code and the original argument vector: no other argument
\* vector gives the same failure.
C20_Original_FailureCarriesArgumentVector ==
  /\ LinesThenVerdict
  /\ proc.at = "raised" =>
       \A v \in ArgVectors : CommandFailed(proc.rc, v) = proc.failure => v = proc.cmd

\* C20 (amended): lines in order, then for a non-zero code a failure that
\* carries the code and the command line, the arguments joined by single
\* spaces; for code 0 all lines and no failure.
C20_FailureCarriesCommandLine ==
  /\ LinesThenVerdict
  /\ proc.at = "raised" => proc.failure.text = Join(proc.cmd)

\* A command of two arguments wrote two lines and exited with code 2: the
\* consumer saw both lines, then the failure.
C20_Witness_TwoLinesThenExitCode2 ==
  /\ proc.at = "raised" /\ proc.rc = 2
  /\ Len(proc.cmd) = 2 /\ Len(proc.seen) = 2

\* Two characters that differ at most in letter case or in the separator
\* used ('_', '-' or space).
SameChar(x, y) ==
  \/ x = y
  \/ {x, y} = {"M", "m"}
  \/ {x, y} \subseteq {"_", "-", " "}

SameButCaseAndSeparators(a, b) ==
  Len(a) = Len(b) /\ \A i \in 1..Len(a) : SameChar(a[i], b[i])

C22_OtherPipelinesUntouched ==
  [][loop # 0 =>
       /\ \A c \in containers : c.name # SlugOf(loop) => c \in containers'
       /\ \A i \in images : i.repo # SlugOf(loop) => i \in images']_vars

RollbackFailed(r) ==
  \E i \in 1..Len(published[r]) :
    /\ published[r][i].type = "log"
    /\ published[r][i].msg = "rollback checkout failed"

\* The rollback was entered from the except block of run_real_pipeline.
RollbackAfterError(r) ==
  \E i \in 1..Len(published[r]) :
    published[r][i].msg = "attempting rollback to previous commit"

\* C23: a failure inside the rollback that follows a fatal error is logged and
\* swallowed: the run goes on to its end, is stored failed, and the run_failed
\* event of the original error was published.
C23_RollbackFailureKeepsRunFailed ==
  \A r \in Runs :
    (Ended(r) /\ RollbackAfterError(r) /\ RollbackFailed(r)) =>
      /\ dbRun[r].status = "failed"
      /\ HasEvent(r, "run_failed")

StreamOpen(s) == subRun[s] # 0

TerminalDelivered(s) == \E i \in 1..Len(received[s]) : IsTerminalEv(received[s][i])

\* C25: once the terminal event of its run (run_success or run_failed) has
\* been delivered, a stream is over: the subscriber no longer waits on the
\* finished run.
C25_StreamEndsAfterTerminalEvent ==
  \A s \in Subs : TerminalDelivered(s) => ~StreamOpen(s)

\* C26: a caller whose role is viewer gets 403 for creating a pipeline and for
\* triggering a run; no Pipeline row, no Run row and no orchestrator task is
\* added by the request.
C26_ViewerNeitherCreatesNorRuns ==
  (auth.answer.op \in {"create", "run"} /\ auth.answer.role = "viewer") =>
    /\ auth.answer.status = 403
    /\ auth.pipes = auth.answer.pipes
    /\ auth.runs = auth.answer.runs
    /\ auth.tasks = auth.answer.tasks

C26_Witness_ViewerRunsExistingPipeline ==
  /\ auth.answer.op = "run" /\ auth.answer.role = "viewer"
  /\ auth.answer.pid <= auth.pipes
  /\ auth.answer.status = 403

\* C27: creating a pipeline with a name and a repo_url under the bootstrap
\* admin e-mail is authorized whatever role was stored, is answered with
\* status 200, and the response carries the given name.
C27_BootstrapAdminCreatesWith200 ==
  (auth.answer.op = "create" /\ auth.answer.named /\ IsBootstrap(auth.answer.email)) =>
    /\ auth.answer.status = 200
    /\ auth.answer.name

\* C28: whatever admin operations are made, in any order, from a user table
\* with at least one admin, at least one user with role admin remains.
C28_AnAdminRemains == AdminCount(auth.users) >= 1

\* The sequence part occurs in the sequence whole, in one piece.
Includes(whole, part) ==
  \E k \in 0..(Len(whole) - Len(part)) :
    \A i \in 1..Len(part) : whole[k + i] = part[i]

\* C29: the image transfer fails exactly when docker save or docker load over
\* ssh exits non-zero, and every failure it raises, also when both exit
\* non-zero, includes the output captured from the consumer.
C29_TransferFailureCarriesConsumerOutput ==
  xfer.at \in {"raised", "done"} =>
    /\ xfer.at = "raised" <=> (xfer.save_rc # 0 \/ xfer.load_rc # 0)
    /\ xfer.at = "raised" => Includes(xfer.failure.text, xfer.out)

\* C30: the pipeline's stored status is written together with the terminal
\* status of a run: once a run of a pipeline has ended, the pipeline's status
\* is the terminal status stored for an ended run of that pipeline.
C30_PipelineStatusFollowsRun ==
  \A r \in Runs :
    Ended(r) =>
      \E q \in Runs :
        /\ Ended(q) /\ PipeOf(q) = PipeOf(r)
        /\ dbRun[q].status \in Terminal
        /\ dbPipeStatus[PipeOf(r)] = dbRun[q].status

\* Event e and log line l say the same.
SameEntry(e, l) == l.kind = e.type /\ l.step = e.step /\ l.msg = e.msg

\* C31: events and log lines correspond one to one: the lines a run has
\* written to the log file are, in the same order, the events it has
\* published, one line for each event and one event for each line.
C31_EventsAndLinesOneToOne ==
  \A r \in Runs :
    /\ Len(logs.written[r]) = Len(published[r])
    /\ \A i \in 1..Len(published[r]) : SameEntry(published[r][i], logs.written[r][i])

\* The run whose header is the last one written to the file of its pipeline.
OwnsLogFile(r) == dbRun[r].status # "none" /\ logs.owner[SlugOf(r)] = r

\* C32: when a run has ended, the log file of its pipeline is the header of
\* that run followed by every step line the run wrote, those of the checkout
\* step included, in order, and nothing of an earlier run.
C32_LogFileHoldsTheWholeRun ==
  \A r \in Runs :
    (Ended(r) /\ OwnsLogFile(r)) => logs.file[SlugOf(r)] = logs.written[r]

\* C33: once a run has ended and no stream is attached to it, the bus holds
\* no channel and no backlog for the run id.
C33_ChannelReclaimedAfterRun ==
  \A r \in Runs :
    (Ended(r) /\ \A s \in Subs : subRun[s] # r) =>
      /\ r \notin chans
      /\ queues[r] = <<>>

StepStarted(r, s) ==
  \E i \in 1..Len(published[r]) :
    published[r][i].type = "step_start" /\ published[r][i].step = s

\* C34: a run that failed before the deploy steps (in checkout, the tests, the
\* analysis or the image build) leaves the container that was running when it
\* started as it was: at the end of its failure handling that container is
\* still there and running.
C34_EarlyFailureKeepsRunningContainer ==
  \A r \in Runs :
    (pc[r] = "fail_final" /\ ~StepStarted(r, "cleanup_old_deploy")) =>
      \A c \in hist[r].pre : c \in containers

\* C35: within one run _rollback_to_previous is executed at most once, also
\* when a step of the rebuild and redeploy after a health-check rollback
\* raises.
C35_RollbackAtMostOnce == \A r \in Runs : hist[r].rollbacks <= 1

\* C36: the commit a run rolls back to was deployed by a run of the same
\* pipeline that ended in success; the checkout of a failed run is never a
\* rollback target.
C36_RollbackTargetWasDeployedWithSuccess ==
  \A r \in Runs :
    (hist[r].rollbacks >= 1 /\ prev[r] # 0) =>
      \E q \in Runs \ {r} :
        /\ dbRun[q].status = "success"
        /\ PipeOf(q) = PipeOf(r)
        /\ localImg[q] = prev[r]

TerminalEvents(r) == {i \in 1..Len(published[r]) : IsTerminalEv(published[r][i])}

\* C37: a run publishes at most one terminal event, and once the run has ended
\* the event agrees with the stored status: run_success exactly for a run
\* stored success, run_failed exactly for a run stored failed.
C37_OneTerminalEventMatchingStatus ==
  \A r \in Runs :
    /\ Cardinality(TerminalEvents(r)) <= 1
    /\ Ended(r) =>
         /\ HasEvent(r, "run_success") <=> dbRun[r].status = "success"
         /\ HasEvent(r, "run_failed") <=> dbRun[r].status = "failed"

\* C38: events are isolated per run.  What a stream has received are events
\* published for the run it is attached to, and the events pending for a run
\* are the last ones published for it, in publish order, whatever was
\* published for other runs meanwhile.
C38_EventsIsolatedPerRun ==
  /\ \A s \in Subs :
       subRun[s] # 0 =>
         \A i \in 1..Len(received[s]) :
           /\ received[s][i].n <= Len(published[subRun[s]])
           /\ received[s][i] = published[subRun[s]][received[s][i].n]
  /\ \A a \in Runs :
       /\ Len(queues[a]) <= Len(published[a])
       /\ \A i \in 1..Len(queues[a]) :
            queues[a][i] = published[a][Len(published[a]) - Len(queues[a]) + i]

\* A stream of one run has received an event and has another one pending
\* while an event was published for a different run.
C38_Witness_TwoRunsPublishing ==
  \E s \in Subs : \E b \in Runs :
    /\ subRun[s] # 0 /\ b # subRun[s]
    /\ Len(received[s]) >= 1
    /\ queues[subRun[s]] # <<>>
    /\ Len(published[b]) >= 1

\* C39: with the build subdirectory present and no SonarCloud token, a run
\* whose compile and tests passed fails in sonarcloud_analysis: docker_build,
\* cleanup_old_deploy, ship_image_ssh and deploy_run are never started and the
\* run is stored failed.
C39_MissingTokenFailsRun ==
  \A r \in Runs :
    (Ended(r) /\ hasDemo /\ ~sonarToken /\ StepStarted(r, "sonarcloud_analysis")) =>
      /\ \A s \in {"docker_build", "cleanup_old_deploy", "ship_image_ssh", "deploy_run"} :
           ~StepStarted(r, s)
      /\ ~HasStepOk(r, "sonarcloud_analysis")
      /\ HasEvent(r, "run_failed")
      /\ dbRun[r].status = "failed"

\* admin above dev above viewer
Rank(role) == CASE role = "admin" -> 3 [] role = "dev" -> 2 [] role = "viewer" -> 1
                [] OTHER -> 0

\* C40: approving a role request never lowers the user's role: after any
\* approve_role_request step the user's role is not below the role held
\* immediately before it.
C40_ApproveNeverLowersRole ==
  [][\A a \in Emails : \A q \in auth.requests :
       (q.user # 0 /\ ApproveRoleRequest(a, q)) =>
         Rank(auth'.users[q.user]) >= Rank(auth.users[q.user])]_vars

=============================================================================
